---- MODULE Spec2Model ----
(***************************************************************************)
(* Whales Market Monitor (src/whales_monitor.py): price parsing, order     *)
(* normalisation, best-order selection, snapshot diffing and the polling   *)
(* loop of WhalesMarketMonitor.run.                                        *)
(*                                                                         *)
(* Python floats are modelled as decimal floating-point numbers            *)
(* [m |-> mantissa, e |-> exponent] (value m * 10^e) kept in normal form   *)
(* (no trailing zero in m, zero is [m |-> 0, e |-> 0]) and rounded         *)
(* half-to-even to Prec significant digits, the way IEEE doubles round to  *)
(* 53 bits.  inf and nan are outside the modelled inputs.                  *)
(* Text is a sequence of one-character strings; the Unicode subscript      *)
(* digit k is written "sk" ("s0" .. "s9").                                 *)
(***************************************************************************)
EXTENDS Integers, Sequences, FiniteSets, TLC

VARIABLES pc, cycle, tok, all_orders, changed_orders, previous_orders,
          seen_order_ids, initial_display_done, fetch_log, changed_log,
          sent, sends, fn, args, ret

vars == <<pc, cycle, tok, all_orders, changed_orders, previous_orders,
          seen_order_ids, initial_display_done, fetch_log, changed_log,
          sent, sends, fn, args, ret>>

runVars == <<pc, cycle, tok, all_orders, changed_orders, previous_orders,
             seen_order_ids, initial_display_done, fetch_log, changed_log,
             sent, sends>>

fnVars == <<fn, args, ret>>

-----------------------------------------------------------------------------
(* Bounds *)

\* significant decimal digits kept by a float
Prec == 4
\* polling cycles (iterations of the while loop) explored
MaxCycles == 3
\* longest order list handed to get_best_order / the normalisation pipeline
MaxLen == 2
\* longest price text handed to parse_special_price
MaxStrLen == 5
\* longest run of ordinary digits after the subscript digit of a compact price
MaxDigits == 3

-----------------------------------------------------------------------------
(* Python values *)

\* Python's None
None == [absent |-> TRUE]
\* an exception propagating out of a call
Raised == [raised |-> TRUE]

-----------------------------------------------------------------------------
(* Decimal floating point *)

RECURSIVE Pow10(_)
Pow10(n) == IF n <= 0 THEN 1 ELSE 10 * Pow10(n - 1)

Abs(x) == IF x < 0 THEN 0 - x ELSE x

RECURSIVE NumDigits(_)
NumDigits(n) == IF n < 10 THEN 1 ELSE 1 + NumDigits(n \div 10)

RECURSIVE StripZeros(_, _)
StripZeros(n, e) ==
    IF n = 0 THEN [m |-> 0, e |-> 0]
    ELSE IF n % 10 = 0 THEN StripZeros(n \div 10, e + 1)
    ELSE [m |-> n, e |-> e]

\* round the non-negative n * 10^e half-to-even to Prec significant digits
RoundMag(n, e) ==
    IF NumDigits(n) <= Prec THEN StripZeros(n, e)
    ELSE LET d == NumDigits(n) - Prec
             q == n \div Pow10(d)
             r == n % Pow10(d)
             half == 5 * Pow10(d - 1)
             up == r > half \/ (r = half /\ q % 2 = 1)
         IN StripZeros(IF up THEN q + 1 ELSE q, e + d)

Negate(x) == [m |-> 0 - x.m, e |-> x.e]

\* the float nearest to sign * n * 10^e
MkFloat(negative, n, e) ==
    IF negative THEN Negate(RoundMag(n, e)) ELSE RoundMag(n, e)

Zero == [m |-> 0, e |-> 0]

IsPositive(x) == x.m > 0

\* decimal order of magnitude of a non-zero float
Magnitude(x) == NumDigits(Abs(x.m)) + x.e

\* x < y for two positive floats
PosLess(x, y) ==
    IF Magnitude(x) # Magnitude(y) THEN Magnitude(x) < Magnitude(y)
    ELSE LET lo == IF x.e < y.e THEN x.e ELSE y.e
         IN x.m * Pow10(x.e - lo) < y.m * Pow10(y.e - lo)

Sign(x) == IF x.m > 0 THEN 1 ELSE IF x.m < 0 THEN 0 - 1 ELSE 0

\* x < y on floats
Less(x, y) ==
    CASE x.m > 0 /\ y.m > 0 -> PosLess(x, y)
      [] x.m < 0 /\ y.m < 0 -> PosLess(Negate(y), Negate(x))
      [] OTHER -> Sign(x) < Sign(y)

\* long division: digits of q are produced until q has Prec digits or the
\* remainder is zero; returns <<q, r, e>> with n/d = (q + r/d) * 10^e
RECURSIVE LongDiv(_, _, _, _)
LongDiv(q, r, d, e) ==
    IF r = 0 \/ q >= Pow10(Prec - 1) THEN <<q, r, e>>
    ELSE LongDiv(q * 10 + ((r * 10) \div d), (r * 10) % d, d, e - 1)

\* x / y for y > 0, rounded half-to-even to Prec significant digits
Divide(x, y) ==
    IF x.m = 0 THEN Zero
    ELSE LET n == Abs(x.m)
             qr == LongDiv(n \div y.m, n % y.m, y.m, 0)
             q == qr[1]
             r == qr[2]
             up == 2 * r > y.m \/ (2 * r = y.m /\ q % 2 = 1)
         IN MkFloat(x.m < 0, IF up THEN q + 1 ELSE q, x.e - y.e + qr[3])

-----------------------------------------------------------------------------
(* Text *)

DigitChars == {"0", "1", "2", "3", "4", "5", "6", "7", "8", "9"}

DigitVal(c) ==
    CASE c = "0" -> 0 [] c = "1" -> 1 [] c = "2" -> 2 [] c = "3" -> 3
      [] c = "4" -> 4 [] c = "5" -> 5 [] c = "6" -> 6 [] c = "7" -> 7
      [] c = "8" -> 8 [] c = "9" -> 9

SubscriptChars == {"s0", "s1", "s2", "s3", "s4", "s5", "s6", "s7", "s8", "s9"}

\* subscript_map, the ordinary digit a subscript digit stands for
subscript_map(c) ==
    CASE c = "s0" -> "0" [] c = "s1" -> "1" [] c = "s2" -> "2" [] c = "s3" -> "3"
      [] c = "s4" -> "4" [] c = "s5" -> "5" [] c = "s6" -> "6" [] c = "s7" -> "7"
      [] c = "s8" -> "8" [] c = "s9" -> "9"

\* the integer a run of digit characters spells
RECURSIVE DigitsValue(_)
DigitsValue(s) ==
    IF s = <<>> THEN 0
    ELSE 10 * DigitsValue(SubSeq(s, 1, Len(s) - 1)) + DigitVal(s[Len(s)])

\* the longest run of digit characters at the start of s
RECURSIVE LeadingDigits(_)
LeadingDigits(s) ==
    IF s = <<>> \/ s[1] \notin DigitChars THEN <<>>
    ELSE <<s[1]>> \o LeadingDigits(Tail(s))

\* s without its "." characters
RECURSIVE DropPoint(_)
DropPoint(s) ==
    IF s = <<>> THEN <<>>
    ELSE IF s[1] = "." THEN DropPoint(Tail(s))
    ELSE <<s[1]>> \o DropPoint(Tail(s))

\* Python's float(str) on text made of digits, ".", "-", and characters no
\* float literal contains: [-] digits [. digits] with at least one digit;
\* anything else raises ValueError
float_of_str(s) ==
    LET negative == s # <<>> /\ s[1] = "-"
        body == IF negative THEN Tail(s) ELSE s
        points == {i \in 1..Len(body) : body[i] = "."}
        digits == DropPoint(body)
        wellFormed == /\ \A i \in 1..Len(body) : body[i] \in DigitChars \cup {"."}
                      /\ Cardinality(points) <= 1
                      /\ digits # <<>>
        fracLen == IF points = {} THEN 0
                   ELSE Len(body) - (CHOOSE i \in points : TRUE)
    IN IF wellFormed THEN MkFloat(negative, DigitsValue(digits), 0 - fracLen)
       ELSE Raised

-----------------------------------------------------------------------------
(* Raw values of the API payload *)

\* a JSON value found in a field: a number, a number too large for a float,
\* a text, null, or nothing (the key is missing)
RawNum(v) == [k |-> "num", v |-> v, s |-> <<>>]
RawStr(s) == [k |-> "str", v |-> Zero, s |-> s]
RawBig == [k |-> "big", v |-> Zero, s |-> <<>>]
RawNull == [k |-> "null", v |-> Zero, s |-> <<>>]
RawMissing == [k |-> "missing", v |-> Zero, s |-> <<>>]

\* a record of the fetched list that is a mapping
RawOrder(id, price, collateral) ==
    [mapping |-> TRUE, id |-> id, price |-> price, collateral |-> collateral]
\* a record of the fetched list that has no .get (a text, a number, null)
NotAMapping ==
    [mapping |-> FALSE, id |-> 0, price |-> RawMissing, collateral |-> RawMissing]

\* float(x) of the builtin
builtin_float(x) ==
    CASE x.k = "num" -> x.v
      [] x.k = "str" -> float_of_str(x.s)
      [] OTHER -> Raised

-----------------------------------------------------------------------------
(* PriceParser, OrderNormalizer, BestOrderSelector, SnapshotDiffer *)

\* re.match(r'0\.0[sub](\d+)', price_str): group 1, or <<>> when no match
compact_match(s) ==
    IF /\ Len(s) >= 5
       /\ s[1] = "0" /\ s[2] = "." /\ s[3] = "0"
       /\ s[4] \in SubscriptChars
    THEN LeadingDigits(SubSeq(s, 5, Len(s)))
    ELSE <<>>

\* a zero run that counts the written "0" as the first of the n zeros
RECURSIVE ZeroRun_OneShort(_)
ZeroRun_OneShort(n) ==
    IF n <= 1 THEN <<>> ELSE <<"0">> \o ZeroRun_OneShort(n - 1)

\* '0' * n
RECURSIVE ZeroRun(_)
ZeroRun(n) == IF n <= 0 THEN <<>> ELSE <<"0">> \o ZeroRun(n - 1)

\* except: return 0.0
zero_if_raised(f) == IF f = Raised THEN Zero ELSE f

\* try: return float(x) / except: return 0.0
float_or_zero(s) == zero_if_raised(float_of_str(s))

\* a parser that keeps the written "0" and adds the zero run after it
parse_special_price_keeps_zero(price_str) ==
    CASE price_str.k = "num" -> price_str.v
      [] price_str.k = "big" -> Raised
      [] price_str.k = "str" ->
           IF compact_match(price_str.s) # <<>>
           THEN float_or_zero(
                   <<"0", ".", "0">>
                     \o ZeroRun(DigitVal(subscript_map(price_str.s[4])))
                     \o compact_match(price_str.s))
           ELSE float_or_zero(price_str.s)
      [] OTHER -> Zero

parse_special_price(price_str) ==
    CASE price_str.k = "num" -> price_str.v
      [] price_str.k = "big" -> Raised
      [] price_str.k = "str" ->
           LET remaining_digits == compact_match(price_str.s)
           IN IF remaining_digits # <<>>
              THEN LET subscript_char == price_str.s[4]
                       zeros_count == DigitVal(subscript_map(subscript_char))
                       decimal_str == <<"0", ".">> \o ZeroRun(zeros_count)
                                         \o remaining_digits
                   IN float_or_zero(decimal_str)
              ELSE float_or_zero(price_str.s)
      [] OTHER -> Zero

Order(id, side, price, amount, collateral, token) ==
    [id |-> id, side |-> side, price |-> price, amount |-> amount,
     collateral |-> collateral, token |-> token]

\* a parse_order that divides whenever the price is not zero, and raises
\* ZeroDivisionError when it is
build_order_unguarded(id, side, price, collateral, token) ==
    IF price = Raised \/ collateral = Raised THEN Raised
    ELSE IF price.m = 0 THEN Raised
    ELSE Order(id, side, price,
               IF price.m > 0 THEN Divide(collateral, price)
               ELSE Negate(Divide(collateral, Negate(price))),
               collateral, token)

\* the dict parse_order returns for a price and a collateral, or Raised when
\* reading either raised
build_order(id, side, price, collateral, token) ==
    IF price = Raised \/ collateral = Raised THEN Raised
    ELSE Order(id, side, price,
               IF IsPositive(price) THEN Divide(collateral, price) ELSE Zero,
               collateral, token)

\* order.get(key, default)
get_field(field, default) == IF field.k = "missing" THEN default ELSE field

\* the try block of parse_order: the dict it builds, or Raised
order_fields(order, side, token) ==
    IF ~order.mapping THEN Raised
    ELSE build_order(order.id, side,
                     parse_special_price(get_field(order.price, RawStr(<<"0">>))),
                     builtin_float(get_field(order.collateral, RawNum(Zero))),
                     token)

\* except Exception: return None
none_if_raised(built) == IF built = Raised THEN None ELSE built

\* parse_order without its except clause
parse_order_uncaught(order, side, token) == order_fields(order, side, token)

\* try: ... except Exception: return None
parse_order(order, side, token) == none_if_raised(order_fields(order, side, token))

\* the filter without the amount test
IsValid_PriceOnly(o) == o # None /\ IsPositive(o.price)

\* o and o['price'] > 0 and o['amount'] > 0
IsValid(o) == o # None /\ IsPositive(o.price) /\ IsPositive(o.amount)

\* a maximum search that keeps the last of several equal maxima
MaxByPrice_Last(valid) ==
    valid[CHOOSE i \in 1..Len(valid) :
            /\ \A j \in 1..Len(valid) : ~Less(valid[i].price, valid[j].price)
            /\ \A j \in (i + 1)..Len(valid) : Less(valid[j].price, valid[i].price)]

\* max(valid, key=...): the first element no other element's key exceeds
MaxByPrice(valid) ==
    valid[CHOOSE i \in 1..Len(valid) :
            /\ \A j \in 1..Len(valid) : ~Less(valid[i].price, valid[j].price)
            /\ \A j \in 1..(i - 1) : Less(valid[j].price, valid[i].price)]

MaxByCollateral(valid) ==
    valid[CHOOSE i \in 1..Len(valid) :
            /\ \A j \in 1..Len(valid) : ~Less(valid[i].collateral, valid[j].collateral)
            /\ \A j \in 1..(i - 1) : Less(valid[j].collateral, valid[i].collateral)]

\* a selector that ranks both sides by price
get_best_order_by_price(orders, side) ==
    IF orders = <<>> THEN None
    ELSE LET valid == SelectSeq(orders, IsValid)
         IN IF valid = <<>> THEN None ELSE MaxByPrice(valid)

get_best_order(orders, side) ==
    IF orders = <<>> THEN None
    ELSE LET valid == SelectSeq(orders, IsValid)
         IN IF valid = <<>> THEN None
            ELSE IF side = "BUY" THEN MaxByPrice(valid)
            ELSE MaxByCollateral(valid)

\* a differ that also compares the identifier
has_order_changed_with_id(current_order, previous_order) ==
    IF current_order = None /\ previous_order = None THEN FALSE
    ELSE IF current_order = None \/ previous_order = None THEN TRUE
    ELSE \/ current_order.id # previous_order.id
         \/ current_order.price # previous_order.price
         \/ current_order.amount # previous_order.amount
         \/ current_order.collateral # previous_order.collateral

\* a differ that looks at the price alone
has_order_changed_price_only(current_order, previous_order) ==
    IF current_order = None /\ previous_order = None THEN FALSE
    ELSE IF current_order = None \/ previous_order = None THEN TRUE
    ELSE current_order.price # previous_order.price

\* a differ that reports nothing unless both orders are present
has_order_changed_present_only(current_order, previous_order) ==
    IF current_order = None \/ previous_order = None THEN FALSE
    ELSE \/ current_order.price # previous_order.price
         \/ current_order.amount # previous_order.amount
         \/ current_order.collateral # previous_order.collateral

has_order_changed(current_order, previous_order) ==
    IF current_order = None /\ previous_order = None THEN FALSE
    ELSE IF current_order = None \/ previous_order = None THEN TRUE
    ELSE \/ current_order.price # previous_order.price
         \/ current_order.amount # previous_order.amount
         \/ current_order.collateral # previous_order.collateral

\* [parse_order(o, side, token) for o in data]
RECURSIVE ParseAll(_, _, _)
ParseAll(data, side, token) ==
    IF data = <<>> THEN <<>>
    ELSE <<parse_order(data[1], side, token)>> \o ParseAll(Tail(data), side, token)

\* the filter and select steps of run on a parsed list: the best order,
\* None, or Raised when an exception left the comprehension
select_best(parsed, side) ==
    IF \E i \in 1..Len(parsed) : parsed[i] = Raised THEN Raised
    ELSE get_best_order(SelectSeq(parsed, IsValid), side)

\* the normalise / filter / select steps of run for one side of one pair
best_of_side(data, side, token) == select_best(ParseAll(data, side, token), side)

\* create_changed_orders_message: the order blocks of the message, one per
\* order of the batch that is not None (the header line is always there)
create_changed_orders_message(batch) ==
    IF batch = <<>> THEN None
    ELSE [blocks |-> SelectSeq(batch, LAMBDA o : o # None)]

-----------------------------------------------------------------------------
(* Configuration and the market API *)

\* self.tokens.keys(), in the order of the TOKENS dict
TokenOrder == <<"TEA", "ZKP">>

\* what requests.get / response.json() give for one (pair, side) request:
\* a payload whose data.list is a list, a transport or decoding failure
\* (timeout, not JSON, no "data" object), or a payload whose data.list is null
JsonList(list) == [kind |-> "json", list |-> list]
Failure == [kind |-> "failed", list |-> <<>>]
NullList == [kind |-> "null", list |-> <<>>]

\* what fetch_orders hands back: a list, or a value run() cannot iterate
PyList(items) == [iterable |-> TRUE, items |-> items]
NotIterable == [iterable |-> FALSE, items |-> <<>>]

fetch_orders(response) ==
    CASE response.kind = "json" -> PyList(response.list)
      [] response.kind = "failed" -> PyList(<<>>)
      [] OTHER -> NotIterable

\* decimal literals used in the payloads
Num(n) == MkFloat(FALSE, n, 0)

RecA == RawOrder(1, RawStr(<<"1", ".", "0">>), RawNum(Num(100)))
RecB == RawOrder(2, RawStr(<<"1", ".", "0">>), RawNum(Num(150)))
RecNoPrice == RawOrder(3, RawStr(<<"x">>), RawNum(Num(100)))

\* the payloads the API serves in this model for a buy request
BuyResponses ==
    { JsonList(<<>>),
      JsonList(<<RecA>>),
      JsonList(<<NotAMapping, RecNoPrice, RecB>>),
      Failure,
      NullList }

\* and for a sell request
SellResponses ==
    { JsonList(<<>>),
      JsonList(<<RecA>>),
      JsonList(<<RecA, RecB>>),
      Failure,
      NullList }

\* what a request came to, as run() sees it
FetchKind(response) ==
    CASE response.kind = "failed" -> "failed"
      [] response.kind = "null" -> "null"
      [] response.list = <<>> -> "empty"
      [] OTHER -> "list"

-----------------------------------------------------------------------------
(* WhalesMarketMonitor.run *)

EmptyMap == <<>>

NoMessage == [kind |-> "none", cycle |-> 0, blocks |-> <<>>, ok |-> FALSE]

Idle == <<>>

RunInit ==
    /\ pc = "startup"
    /\ cycle = 0
    /\ tok = 1
    /\ all_orders = EmptyMap
    /\ changed_orders = <<>>
    /\ previous_orders = EmptyMap
    /\ seen_order_ids = {}
    /\ initial_display_done = FALSE
    /\ fetch_log = EmptyMap
    /\ changed_log = EmptyMap
    /\ sent = NoMessage
    /\ sends = 0

Init ==
    /\ RunInit
    /\ fn = "run"
    /\ args = Idle
    /\ ret = Idle

\* the top of the while loop: all_orders = {}, changed_orders = []
BeginCycle ==
    /\ cycle < MaxCycles
    /\ cycle' = cycle + 1
    /\ pc' = "pairs"
    /\ tok' = 1
    /\ all_orders' = EmptyMap
    /\ changed_orders' = <<>>
    /\ fetch_log' = EmptyMap
    /\ changed_log' = EmptyMap
    /\ sent' = NoMessage
    /\ sends' = 0

\* the logging and the startup notification (its result is discarded), then
\* the first iteration
Startup ==
    /\ pc = "startup"
    /\ BeginCycle
    /\ UNCHANGED <<previous_orders, seen_order_ids, initial_display_done>>
    /\ UNCHANGED fnVars

\* self.previous_orders.get(token, {}) with .get('buy') / .get('sell')
PrevOf(token) ==
    IF token \in DOMAIN previous_orders THEN previous_orders[token]
    ELSE [buy |-> None, sell |-> None]

\* the best order of a fetched value, Raised when it cannot be iterated
best_of_fetched(data, side, token) ==
    IF data.iterable THEN best_of_side(data.items, side, token) ELSE Raised

\* an iteration that looks at the sell side only when the buy side did not
\* change (elif in place of the second if)
PairOutcome_ElseIf(token, buy_kind, sell_kind, best_buy, best_sell) ==
    /\ fetch_log' =
          (token :> [buy |-> buy_kind,
                     sell |-> IF best_buy = Raised THEN "none" ELSE sell_kind])
            @@ fetch_log
    /\ IF best_buy = Raised \/ best_sell = Raised
       THEN \* e.g. iterating None raises TypeError: except Exception
            /\ pc' = "backoff"
            /\ UNCHANGED <<cycle, tok, all_orders, changed_orders,
                           previous_orders, seen_order_ids,
                           initial_display_done, changed_log, sent, sends>>
       ELSE LET prev == PrevOf(token)
                buy_changed == has_order_changed(best_buy, prev.buy)
                sell_changed == ~buy_changed /\ has_order_changed(best_sell, prev.sell)
            IN /\ all_orders' =
                     (token :> [buy |-> best_buy, sell |-> best_sell]) @@ all_orders
               /\ changed_orders' =
                     changed_orders
                       \o (IF buy_changed THEN <<best_buy>> ELSE <<>>)
                       \o (IF sell_changed THEN <<best_sell>> ELSE <<>>)
               /\ changed_log' =
                     (token :> [buy |-> buy_changed, sell |-> sell_changed])
                       @@ changed_log
               /\ seen_order_ids' =
                     seen_order_ids
                       \cup (IF best_buy # None THEN {best_buy.id} ELSE {})
                       \cup (IF best_sell # None THEN {best_sell.id} ELSE {})
               /\ tok' = tok + 1
               /\ pc' = IF tok = Len(TokenOrder) THEN "finish" ELSE "pairs"
               /\ UNCHANGED <<cycle, previous_orders, initial_display_done,
                              sent, sends>>

\* an iteration that writes the pair's entry into the stored snapshot at
\* once instead of leaving that to the end of the cycle
PairOutcome_StoresAsItGoes(token, buy_kind, sell_kind, best_buy, best_sell) ==
    /\ fetch_log' =
          (token :> [buy |-> buy_kind,
                     sell |-> IF best_buy = Raised THEN "none" ELSE sell_kind])
            @@ fetch_log
    /\ IF best_buy = Raised \/ best_sell = Raised
       THEN \* e.g. iterating None raises TypeError: except Exception
            /\ pc' = "backoff"
            /\ UNCHANGED <<cycle, tok, all_orders, changed_orders,
                           previous_orders, seen_order_ids,
                           initial_display_done, changed_log, sent, sends>>
       ELSE LET prev == PrevOf(token)
                buy_changed == has_order_changed(best_buy, prev.buy)
                sell_changed == has_order_changed(best_sell, prev.sell)
            IN /\ all_orders' =
                     (token :> [buy |-> best_buy, sell |-> best_sell]) @@ all_orders
               /\ changed_orders' =
                     changed_orders
                       \o (IF buy_changed THEN <<best_buy>> ELSE <<>>)
                       \o (IF sell_changed THEN <<best_sell>> ELSE <<>>)
               /\ changed_log' =
                     (token :> [buy |-> buy_changed, sell |-> sell_changed])
                       @@ changed_log
               /\ seen_order_ids' =
                     seen_order_ids
                       \cup (IF best_buy # None THEN {best_buy.id} ELSE {})
                       \cup (IF best_sell # None THEN {best_sell.id} ELSE {})
               /\ tok' = tok + 1
               /\ pc' = IF tok = Len(TokenOrder) THEN "finish" ELSE "pairs"
               /\ previous_orders' =
                     (token :> [buy |-> best_buy, sell |-> best_sell])
                       @@ previous_orders
               /\ UNCHANGED <<cycle, initial_display_done, sent, sends>>

\* an iteration that records the id of the best BUY order only
PairOutcome_SeenBuyOnly(token, buy_kind, sell_kind, best_buy, best_sell) ==
    /\ fetch_log' =
          (token :> [buy |-> buy_kind,
                     sell |-> IF best_buy = Raised THEN "none" ELSE sell_kind])
            @@ fetch_log
    /\ IF best_buy = Raised \/ best_sell = Raised
       THEN \* e.g. iterating None raises TypeError: except Exception
            /\ pc' = "backoff"
            /\ UNCHANGED <<cycle, tok, all_orders, changed_orders,
                           previous_orders, seen_order_ids,
                           initial_display_done, changed_log, sent, sends>>
       ELSE LET prev == PrevOf(token)
                buy_changed == has_order_changed(best_buy, prev.buy)
                sell_changed == has_order_changed(best_sell, prev.sell)
            IN /\ all_orders' =
                     (token :> [buy |-> best_buy, sell |-> best_sell]) @@ all_orders
               /\ changed_orders' =
                     changed_orders
                       \o (IF buy_changed THEN <<best_buy>> ELSE <<>>)
                       \o (IF sell_changed THEN <<best_sell>> ELSE <<>>)
               /\ changed_log' =
                     (token :> [buy |-> buy_changed, sell |-> sell_changed])
                       @@ changed_log
               /\ seen_order_ids' =
                     seen_order_ids
                       \cup (IF best_buy # None THEN {best_buy.id} ELSE {})
               /\ tok' = tok + 1
               /\ pc' = IF tok = Len(TokenOrder) THEN "finish" ELSE "pairs"
               /\ UNCHANGED <<cycle, previous_orders, initial_display_done,
                              sent, sends>>

\* the rest of the iteration, given what the two requests came to
\* (the sell request is made only when the buy side went through)
PairOutcome(token, buy_kind, sell_kind, best_buy, best_sell) ==
    /\ fetch_log' =
          (token :> [buy |-> buy_kind,
                     sell |-> IF best_buy = Raised THEN "none" ELSE sell_kind])
            @@ fetch_log
    /\ IF best_buy = Raised \/ best_sell = Raised
       THEN \* e.g. iterating None raises TypeError: except Exception
            /\ pc' = "backoff"
            /\ UNCHANGED <<cycle, tok, all_orders, changed_orders,
                           previous_orders, seen_order_ids,
                           initial_display_done, changed_log, sent, sends>>
       ELSE LET prev == PrevOf(token)
                buy_changed == has_order_changed(best_buy, prev.buy)
                sell_changed == has_order_changed(best_sell, prev.sell)
            IN /\ all_orders' =
                     (token :> [buy |-> best_buy, sell |-> best_sell]) @@ all_orders
               /\ changed_orders' =
                     changed_orders
                       \o (IF buy_changed THEN <<best_buy>> ELSE <<>>)
                       \o (IF sell_changed THEN <<best_sell>> ELSE <<>>)
               /\ changed_log' =
                     (token :> [buy |-> buy_changed, sell |-> sell_changed])
                       @@ changed_log
               /\ seen_order_ids' =
                     seen_order_ids
                       \cup (IF best_buy # None THEN {best_buy.id} ELSE {})
                       \cup (IF best_sell # None THEN {best_sell.id} ELSE {})
               /\ tok' = tok + 1
               /\ pc' = IF tok = Len(TokenOrder) THEN "finish" ELSE "pairs"
               /\ UNCHANGED <<cycle, previous_orders, initial_display_done,
                              sent, sends>>

\* one iteration of "for token in self.tokens.keys()"
ProcessPair(buy_response, sell_response) ==
    /\ pc = "pairs"
    /\ PairOutcome(TokenOrder[tok],
                   FetchKind(buy_response), FetchKind(sell_response),
                   best_of_fetched(fetch_orders(buy_response), "BUY", TokenOrder[tok]),
                   best_of_fetched(fetch_orders(sell_response), "SELL", TokenOrder[tok]))
    /\ UNCHANGED fnVars

\* a finish that merges: a side with no best order keeps the stored one
FinishCycle_KeepsOld(ok) ==
    /\ pc = "finish"
    /\ previous_orders' =
          [t \in DOMAIN all_orders |->
              [buy |-> IF all_orders[t].buy = None THEN PrevOf(t).buy
                       ELSE all_orders[t].buy,
               sell |-> IF all_orders[t].sell = None THEN PrevOf(t).sell
                        ELSE all_orders[t].sell]]
    /\ initial_display_done' = TRUE
    /\ IF changed_orders # <<>>
       THEN /\ sent' = [kind |-> "change", cycle |-> cycle,
                        blocks |-> create_changed_orders_message(changed_orders).blocks,
                        ok |-> ok]
            /\ sends' = sends + 1
       ELSE UNCHANGED <<sent, sends>>
    /\ pc' = "sleep"
    /\ UNCHANGED <<cycle, tok, all_orders, changed_orders, seen_order_ids,
                   fetch_log, changed_log>>
    /\ UNCHANGED fnVars

\* a finish that stores the snapshot only once the alert went out: a failed
\* send leaves the stored snapshot as it was
FinishCycle_SnapshotAfterSend(ok) ==
    /\ pc = "finish"
    /\ previous_orders' =
          IF changed_orders # <<>> /\ ~ok THEN previous_orders ELSE all_orders
    /\ initial_display_done' = TRUE
    /\ IF changed_orders # <<>>
       THEN /\ sent' = [kind |-> "change", cycle |-> cycle,
                        blocks |-> create_changed_orders_message(changed_orders).blocks,
                        ok |-> ok]
            /\ sends' = sends + 1
       ELSE UNCHANGED <<sent, sends>>
    /\ pc' = "sleep"
    /\ UNCHANGED <<cycle, tok, all_orders, changed_orders, seen_order_ids,
                   fetch_log, changed_log>>
    /\ UNCHANGED fnVars

\* after the for loop: replace the snapshot, first display, alert
FinishCycle(ok) ==
    /\ pc = "finish"
    /\ previous_orders' = all_orders
    /\ initial_display_done' = TRUE
    /\ IF changed_orders # <<>>
       THEN LET telegram_message == create_changed_orders_message(changed_orders)
            IN /\ sent' = [kind |-> "change", cycle |-> cycle,
                           blocks |-> telegram_message.blocks, ok |-> ok]
               /\ sends' = sends + 1
       ELSE UNCHANGED <<sent, sends>>
    /\ pc' = "sleep"
    /\ UNCHANGED <<cycle, tok, all_orders, changed_orders, seen_order_ids,
                   fetch_log, changed_log>>
    /\ UNCHANGED fnVars

\* time.sleep(poll_interval), then the next iteration
Sleep ==
    /\ pc = "sleep"
    /\ BeginCycle
    /\ UNCHANGED <<previous_orders, seen_order_ids, initial_display_done>>
    /\ UNCHANGED fnVars

\* an except clause that lets the error out of run instead of sleeping
Backoff_Raises ==
    /\ pc = "backoff"
    /\ pc' = "crashed"
    /\ UNCHANGED <<cycle, tok, all_orders, changed_orders, previous_orders,
                   seen_order_ids, initial_display_done, fetch_log, changed_log,
                   sent, sends>>
    /\ UNCHANGED fnVars

\* except Exception: log, time.sleep(10), then the next iteration
Backoff ==
    /\ pc = "backoff"
    /\ BeginCycle
    /\ UNCHANGED <<previous_orders, seen_order_ids, initial_display_done>>
    /\ UNCHANGED fnVars

\* KeyboardInterrupt: break out of the loop (or out of run, when it arrives
\* outside the try block)
Interrupt ==
    /\ pc \in {"startup", "pairs", "finish", "sleep", "backoff"}
    /\ pc' = "stopped"
    /\ UNCHANGED <<cycle, tok, all_orders, changed_orders, previous_orders,
                   seen_order_ids, initial_display_done, fetch_log, changed_log,
                   sent, sends>>
    /\ UNCHANGED fnVars

Next ==
    \/ Startup
    \/ \E b \in BuyResponses, s \in SellResponses : ProcessPair(b, s)
    \/ \E ok \in BOOLEAN : FinishCycle(ok)
    \/ Sleep
    \/ Backoff
    \/ Interrupt

Spec == Init /\ [][Next]_vars

\* the steps the monitor takes on its own.  run is one thread; the requests
\* of fetch_orders and send_telegram_alert carry timeout=10 and both sleeps
\* return, so a step that is possible is taken in the end.  An interrupt
\* comes from outside and need not come at all.
RunStep ==
    \/ Startup
    \/ \E b \in BuyResponses, s \in SellResponses : ProcessPair(b, s)
    \/ \E ok \in BOOLEAN : FinishCycle(ok)
    \/ Sleep
    \/ Backoff

SpecLive == Init /\ [][Next]_vars /\ WF_vars(RunStep)

-----------------------------------------------------------------------------
(* The pure functions, called on their own *)

Sides == {"BUY", "SELL"}

\* all sequences over S of length at most n
SeqsUpTo(S, n) == UNION {[1..k -> S] : k \in 0..n}

\* orders handed to has_order_changed
DiffOrders ==
    {Order(id, side, Num(p), Num(a), Num(c), t) :
        id \in {1, 2}, side \in Sides, p \in {1, 2}, a \in {5, 6},
        c \in {100, 150}, t \in {"TEA", "ZKP"}}
      \cup {None}

\* orders handed to get_best_order, None and zero-valued ones among them
SelectOrders ==
    {Order(id, "BUY", Num(p), Num(a), Num(c), "TEA") :
        id \in {1, 2}, p \in {0, 1, 2}, a \in {0, 5}, c \in {100, 150}}
      \cup {None}

\* price fields and collateral fields of raw records
RawPrices ==
    { RawStr(<<"1">>), RawNum(Num(2)), RawStr(<<"0", ".", "0", "s3", "5">>),
      RawStr(<<"x">>), RawNull, RawBig, RawMissing }

RawCollaterals ==
    { RawNum(Num(100)), RawStr(<<"1", "5", "0">>), RawNull }

RawOrders ==
    {RawOrder(1, p, c) : p \in RawPrices, c \in RawCollaterals}
      \cup {NotAMapping}

\* texts handed to parse_special_price
PriceAlphabet == {"0", "5", ".", "s2", "x", "-"}

PriceInputs ==
    {RawStr(s) : s \in SeqsUpTo(PriceAlphabet, MaxStrLen)}
      \cup {RawNum(Num(2)), RawNum(Zero), RawNull, RawBig}

\* compact prices "0.0" + subscript digit + digits, for every subscript digit
CompactDigits == {"0", "5", "7", "8"}

Compact(subscript_char, digits) == <<"0", ".", "0", subscript_char>> \o digits

CompactInputs ==
    {RawStr(Compact(c, d)) :
        c \in SubscriptChars, d \in SeqsUpTo(CompactDigits, MaxDigits) \ {<<>>}}

\* records handed to parse_order on its own: prices that divide the
\* collateral exactly and one that does not (0.003 into 100), zero, negative
\* and unreadable prices
OrderPrices ==
    { RawNum(Num(7)), RawStr(<<"2">>),
      RawStr(<<"0", ".", "0", "s2", "3">>),
      RawStr(<<"0", ".", "0", "s3", "7", "8">>), RawStr(<<"-", "1">>),
      RawNum(Zero), RawStr(<<"x">>), RawNull, RawMissing, RawBig }

OrderCollaterals ==
    { RawNum(Num(100)), RawStr(<<"1", "5", "0">>), RawStr(<<"-", "1", "5", "0">>),
      RawNum(Zero), RawMissing, RawNull }

ParseOrderInputs ==
    {RawOrder(1, p, c) : p \in OrderPrices, c \in OrderCollaterals}
      \cup {NotAMapping}

InitFn ==
    /\ RunInit
    /\ ret = Idle
    /\ \/ fn = "has_order_changed" /\ args \in DiffOrders \X DiffOrders
       \/ fn = "get_best_order" /\ args \in SeqsUpTo(SelectOrders, MaxLen) \X Sides
       \/ fn = "normalize" /\ args \in SeqsUpTo(RawOrders, MaxLen) \X Sides
       \/ fn = "parse_order" /\ args \in ParseOrderInputs \X Sides
       \/ fn = "parse_special_price"
             /\ args \in {<<p>> : p \in PriceInputs \cup CompactInputs}

CallHasOrderChanged ==
    /\ fn = "has_order_changed" /\ Len(ret) = 0
    /\ ret' = <<has_order_changed(args[1], args[2])>>
    /\ UNCHANGED <<fn, args>>
    /\ UNCHANGED runVars

CallGetBestOrder ==
    /\ fn = "get_best_order" /\ Len(ret) = 0
    /\ ret' = <<get_best_order(args[1], args[2])>>
    /\ UNCHANGED <<fn, args>>
    /\ UNCHANGED runVars

\* lines 196-198 / 201-203 of run on one fetched list
CallNormalize ==
    /\ fn = "normalize" /\ Len(ret) = 0
    /\ ret' = <<[parsed |-> ParseAll(args[1], args[2], "TEA"),
                 best |-> best_of_side(args[1], args[2], "TEA")]>>
    /\ UNCHANGED <<fn, args>>
    /\ UNCHANGED runVars

CallParseSpecialPrice ==
    /\ fn = "parse_special_price" /\ Len(ret) = 0
    /\ ret' = <<parse_special_price(args[1])>>
    /\ UNCHANGED <<fn, args>>
    /\ UNCHANGED runVars

CallParseOrder ==
    /\ fn = "parse_order" /\ Len(ret) = 0
    /\ ret' = <<parse_order(args[1], args[2], "TEA")>>
    /\ UNCHANGED <<fn, args>>
    /\ UNCHANGED runVars

NextFn ==
    \/ CallHasOrderChanged
    \/ CallGetBestOrder
    \/ CallNormalize
    \/ CallParseSpecialPrice
    \/ CallParseOrder

SpecFn == InitFn /\ [][NextFn]_vars

-----------------------------------------------------------------------------
(* Properties of run *)

Range(seq) == {seq[i] : i \in 1..Len(seq)}

Tokens == Range(TokenOrder)

\* the pairs processed so far in the cycle under way, with a snapshot entry
\* stored by the previous completed cycle to compare against
Compared ==
    IF pc \in {"pairs", "finish", "backoff"}
    THEN DOMAIN all_orders \cap DOMAIN previous_orders
    ELSE {}

\* C1: in the first polling cycle no change alert is handed to the alert sink.
C1_FirstCycleSilent ==
    cycle = 1 => (sent.kind # "change" /\ sends = 0)

\* C3: when a pair's best BUY order keeps its price but differs in collateral
\* from the BUY order the previous completed cycle stored, the cycle marks the
\* BUY side changed and its alert batch holds the new best BUY order.
C3_CollateralChangeQueued ==
    \A t \in Compared :
        LET cur == all_orders[t].buy
            prev == previous_orders[t].buy
        IN (/\ cur # None /\ prev # None
            /\ cur.price = prev.price
            /\ cur.collateral # prev.collateral)
           => (changed_log[t].buy /\ cur \in Range(changed_orders))

C3_Witness ==
    /\ pc = "finish"
    /\ \E t \in Compared :
          /\ all_orders[t].buy # None /\ previous_orders[t].buy # None
          /\ all_orders[t].buy.price = previous_orders[t].buy.price
          /\ all_orders[t].buy.collateral # previous_orders[t].buy.collateral
          /\ all_orders[t].buy \in Range(changed_orders)

\* C4: when the previous completed cycle stored a best BUY order for a pair
\* and this cycle's BUY fetch for the pair gave an empty list (served empty,
\* or a failed fetch degraded to empty), the BUY comparison says changed.
C4_DisappearedIsChanged ==
    \A t \in Compared :
        (/\ previous_orders[t].buy # None
         /\ fetch_log[t].buy \in {"empty", "failed"})
        => changed_log[t].buy

C4_Witness ==
    /\ \E t \in Compared :
          /\ previous_orders[t].buy # None
          /\ fetch_log[t].buy = "empty"
          /\ changed_log[t].buy
    /\ \E t \in Compared :
          /\ previous_orders[t].buy # None
          /\ fetch_log[t].buy = "failed"
          /\ changed_log[t].buy

\* C5: after every completed cycle the snapshot map holds exactly this
\* cycle's results: one entry per configured pair, equal to the pair's best
\* BUY and best SELL of this cycle, changed or not, and None where the
\* cycle selected nothing, whatever an earlier cycle had stored.
C5_SnapshotIsThisCycle ==
    pc = "sleep" =>
        /\ DOMAIN previous_orders = Tokens
        /\ \A t \in Tokens :
              /\ previous_orders[t] = all_orders[t]
              /\ fetch_log[t].buy \in {"empty", "failed"}
                    => previous_orders[t].buy = None
              /\ fetch_log[t].sell \in {"empty", "failed"}
                    => previous_orders[t].sell = None

C5_Witness ==
    /\ pc = "sleep"
    /\ cycle >= 2
    /\ \E t \in Tokens :
          /\ ~changed_log[t].buy /\ ~changed_log[t].sell
          /\ previous_orders[t].buy # None
    /\ \E t \in Tokens :
          /\ changed_log[t].buy
          /\ previous_orders[t].buy = None

\* C6: a fetch or parse failure for one pair never aborts the cycle: the
\* cycle goes on to the other pairs and is not abandoned.
C6_FailureNeverAborts ==
    (\E t \in DOMAIN fetch_log :
        \/ fetch_log[t].buy \in {"failed", "null"}
        \/ fetch_log[t].sell \in {"failed", "null"})
    => pc # "backoff"

\* C11: a cycle makes at most one change-alert send attempt, one message for
\* the whole batch; when that send fails it is not tried again in the cycle,
\* and the cycle still reaches its sleep with the snapshot map replaced by
\* this cycle's results.
C11_OneSendNoRetry ==
    /\ sends <= 1
    /\ (sent.kind = "change") <=> (sends = 1)
    /\ (sent.kind = "change" /\ ~sent.ok) =>
          /\ pc \in {"sleep", "stopped"}
          /\ sent.cycle = cycle
          /\ sent.blocks = SelectSeq(changed_orders, LAMBDA o : o # None)
          /\ DOMAIN previous_orders = Tokens
          /\ previous_orders = all_orders

C11_Witness ==
    /\ pc = "sleep"
    /\ cycle >= 2
    /\ sent.kind = "change" /\ ~sent.ok
    /\ sends = 1
    /\ Len(changed_orders) >= 2
    /\ previous_orders = all_orders

\* C12: unless an interrupt stops the monitor, every cycle that started,
\* whether it completes or is cut short by an error, is eventually followed by
\* the start of the next cycle (within the MaxCycles cycles explored).
C12_KeepsPolling ==
    \A c \in 1..(MaxCycles - 1) :
        (cycle = c) ~> (cycle = c + 1 \/ pc = "stopped")

\* a cycle under way after every earlier cycle was cut short by an error
C12_Witness ==
    /\ cycle = MaxCycles
    /\ pc = "pairs"
    /\ previous_orders = EmptyMap
    /\ ~initial_display_done

\* C13: the loop stops on an interrupt only between cycles: once stopped,
\* either no pair of a cycle had been started, or the cycle had been cut
\* short by an error before the interrupt came, or the cycle in progress was
\* finished (all pairs processed, snapshot map replaced, the pending alert
\* handed to the sink).
C13_StopsBetweenCycles ==
    pc = "stopped" =>
        \/ fetch_log = EmptyMap
        \/ DOMAIN fetch_log # DOMAIN all_orders
        \/ /\ DOMAIN all_orders = Tokens
           /\ previous_orders = all_orders
           /\ changed_orders # <<>> => sends = 1

\* two best orders of a side that do not differ: both absent, or both
\* present with the same price, amount and collateral
SameSide(cur, prev) ==
    \/ cur = None /\ prev = None
    \/ /\ cur # None /\ prev # None
       /\ cur.price = prev.price
       /\ cur.amount = prev.amount
       /\ cur.collateral = prev.collateral

\* the batch the first n pairs give: for each pair in turn its best BUY order
\* if has_order_changed says so against the stored BUY order, then the same
\* for SELL
RECURSIVE BatchOf(_)
BatchOf(n) ==
    IF n = 0 THEN <<>>
    ELSE BatchOf(n - 1)
           \o (IF has_order_changed(all_orders[TokenOrder[n]].buy,
                                    PrevOf(TokenOrder[n]).buy)
               THEN <<all_orders[TokenOrder[n]].buy>> ELSE <<>>)
           \o (IF has_order_changed(all_orders[TokenOrder[n]].sell,
                                    PrevOf(TokenOrder[n]).sell)
               THEN <<all_orders[TokenOrder[n]].sell>> ELSE <<>>)

\* no side of any pair differs from the stored snapshot
NothingDiffers ==
    \A t \in Tokens :
        /\ t \in DOMAIN all_orders
        /\ SameSide(all_orders[t].buy, PrevOf(t).buy)
        /\ SameSide(all_orders[t].sell, PrevOf(t).sell)

\* C17: in every cycle after the first, the alert batch holds an entry for a
\* (pair, side) exactly when has_order_changed is true for the side's new best
\* order against the order the previous completed cycle stored for it, each
\* side on its own; and a cycle in which no side of any pair differs in
\* price, amount or collateral sends no alert.
C17_BatchIffChanged ==
    /\ [](cycle >= 2 /\ pc \in {"pairs", "finish", "backoff"}
            => changed_orders = BatchOf(Cardinality(DOMAIN all_orders)))
    /\ [][(cycle >= 2 /\ pc = "finish" /\ pc' = "sleep")
            => /\ (sends' = 1) <=> (changed_orders # <<>>)
               /\ NothingDiffers => (sends' = 0 /\ sent'.kind = "none")]_vars

\* a later cycle in which one pair changed on both sides and the other pair,
\* holding a BUY order, on neither
C17_Witness ==
    /\ cycle >= 2
    /\ pc = "finish"
    /\ Len(changed_orders) = 2
    /\ \E t \in Tokens :
          /\ changed_log[t].buy /\ changed_log[t].sell
          /\ changed_orders = <<all_orders[t].buy, all_orders[t].sell>>
    /\ \E t \in Tokens :
          /\ ~changed_log[t].buy /\ ~changed_log[t].sell
          /\ all_orders[t].buy # None

\* C18: every entry queued in a cycle's alert batch is a present order, never
\* an absent value, and every change alert handed to the sink holds at least
\* one order block.
C18_BatchEntriesPresent ==
    /\ \A i \in 1..Len(changed_orders) : changed_orders[i] # None
    /\ sent.kind = "change" => Len(sent.blocks) >= 1

\* C19: only the end of a completed cycle writes the stored snapshot map, so
\* a cycle cut short by an exception while pairs are processed leaves it as
\* the last completed cycle wrote it, and sends no alert; every change the
\* aborted cycle had detected is still a change against the stored snapshot,
\* which the next cycle compares with.
C19_AbortKeepsSnapshot ==
    /\ [][previous_orders' # previous_orders
            => (pc = "finish" /\ pc' = "sleep")]_vars
    /\ [][pc = "backoff" => (sends' = 0 /\ sent'.kind = "none")]_vars
    /\ [](pc = "backoff" =>
            /\ sends = 0 /\ sent.kind = "none"
            /\ \A t \in DOMAIN all_orders :
                  /\ changed_log[t].buy
                        => ~SameSide(all_orders[t].buy, PrevOf(t).buy)
                  /\ changed_log[t].sell
                        => ~SameSide(all_orders[t].sell, PrevOf(t).sell))

\* a cycle aborted at its second pair after the first pair's BUY order was
\* found changed against the snapshot of a completed cycle
C19_Witness ==
    /\ pc = "backoff"
    /\ cycle >= 2
    /\ DOMAIN previous_orders = Tokens
    /\ DOMAIN all_orders = {TokenOrder[1]}
    /\ changed_log[TokenOrder[1]].buy
    /\ previous_orders[TokenOrder[1]].buy # None
    /\ all_orders[TokenOrder[1]].buy # None
    /\ changed_orders # <<>>

\* the ids of the best orders held in the stored snapshot map
SnapshotIds ==
    UNION {(IF previous_orders[t].buy # None
            THEN {previous_orders[t].buy.id} ELSE {})
             \cup (IF previous_orders[t].sell # None
                   THEN {previous_orders[t].sell.id} ELSE {}) :
           t \in DOMAIN previous_orders}

\* C20: no step of run removes an identifier from seen_order_ids, and after
\* every completed cycle the set holds the id of every best order of the
\* stored snapshot map.
C20_SeenIdsOnlyGrow ==
    /\ [][seen_order_ids \subseteq seen_order_ids']_vars
    /\ [](pc = "sleep" => SnapshotIds \subseteq seen_order_ids)

\* after a completed later cycle the set still holds an id that is no longer
\* in the snapshot, next to the id of a SELL order that is
C20_Witness ==
    /\ pc = "sleep"
    /\ cycle >= 2
    /\ seen_order_ids = {1, 2}
    /\ SnapshotIds = {2}
    /\ \E t \in Tokens :
          previous_orders[t].sell # None /\ previous_orders[t].buy = None

-----------------------------------------------------------------------------
(* Properties of the pure functions *)

Returned(name) == fn = name /\ Len(ret) = 1

\* price > 0 and amount > 0, spelled out on the order's fields
Usable(o) == o # None /\ o.price.m > 0 /\ o.amount.m > 0

\* the positions of the usable orders of a list
UsableAt(orders) == {i \in 1..Len(orders) : Usable(orders[i])}

\* C2: has_order_changed is false for two absent orders, true when exactly one
\* is absent, and for two present orders true exactly when price, amount or
\* collateral differ; id, side and token play no part.
C2_HasOrderChanged ==
    Returned("has_order_changed") =>
        LET cur == args[1]
            prev == args[2]
            r == ret[1]
        IN /\ (cur = None /\ prev = None) => ~r
           /\ ((cur = None) # (prev = None)) => r
           /\ (cur # None /\ prev # None) =>
                 (r <=> \/ cur.price # prev.price
                        \/ cur.amount # prev.amount
                        \/ cur.collateral # prev.collateral)

C2_Witness ==
    /\ Returned("has_order_changed")
    /\ args[1] # None /\ args[2] # None
    /\ args[1].id # args[2].id
    /\ args[1].side # args[2].side
    /\ args[1].token # args[2].token
    /\ args[1].price = args[2].price
    /\ args[1].amount = args[2].amount
    /\ args[1].collateral = args[2].collateral
    /\ ret[1] = FALSE

\* C7: on a BUY list with a usable order, get_best_order returns a usable
\* order of maximum price, the first of the list when several share it.
C7_BestBuyFirstMaxPrice ==
    (Returned("get_best_order") /\ args[2] = "BUY" /\ UsableAt(args[1]) # {}) =>
        LET orders == args[1]
        IN \E i \in UsableAt(orders) :
              /\ ret[1] = orders[i]
              /\ \A j \in UsableAt(orders) :
                    /\ ~Less(orders[i].price, orders[j].price)
                    /\ j < i => Less(orders[j].price, orders[i].price)

C7_Witness ==
    /\ Returned("get_best_order") /\ args[2] = "BUY"
    /\ Len(args[1]) = 2
    /\ Usable(args[1][1]) /\ Usable(args[1][2])
    /\ args[1][1].price = args[1][2].price
    /\ args[1][1] # args[1][2]
    /\ ret[1] = args[1][1]

\* C8: on a SELL list with a usable order, get_best_order returns a usable
\* order of maximum collateral, whatever the prices are.
C8_BestSellMaxCollateral ==
    (Returned("get_best_order") /\ args[2] = "SELL" /\ UsableAt(args[1]) # {}) =>
        LET orders == args[1]
        IN \E i \in UsableAt(orders) :
              /\ ret[1] = orders[i]
              /\ \A j \in UsableAt(orders) :
                    ~Less(orders[i].collateral, orders[j].collateral)

C8_Witness ==
    /\ Returned("get_best_order") /\ args[2] = "SELL"
    /\ Len(args[1]) = 2
    /\ \E i, j \in 1..2 :
          /\ Usable(args[1][i]) /\ Usable(args[1][j])
          /\ Less(args[1][j].price, args[1][i].price)
          /\ Less(args[1][j].collateral, args[1][i].collateral)
          /\ ret[1] = args[1][i]

\* C9: get_best_order returns None exactly when the list holds no usable
\* order; otherwise it returns an element of the list that is usable.
C9_NoneIffNoUsable ==
    Returned("get_best_order") =>
        LET orders == args[1]
        IN /\ (ret[1] = None) <=> (UsableAt(orders) = {})
           /\ ret[1] # None =>
                 (Usable(ret[1]) /\ \E i \in 1..Len(orders) : orders[i] = ret[1])

C9_Witness ==
    /\ Returned("get_best_order")
    /\ Len(args[1]) = 2
    /\ args[1][1] # None /\ args[1][1].price.m > 0 /\ args[1][1].amount.m = 0
    /\ args[1][2] # None /\ args[1][2].price.m = 0 /\ args[1][2].amount.m > 0
    /\ ret[1] = None

\* the same on the state of run: every order stored in the snapshot map, held
\* in this cycle's results or queued in the batch is usable
StoredOrdersUsable ==
    /\ \A t \in DOMAIN previous_orders :
          /\ previous_orders[t].buy # None => Usable(previous_orders[t].buy)
          /\ previous_orders[t].sell # None => Usable(previous_orders[t].sell)
    /\ \A t \in DOMAIN all_orders :
          /\ all_orders[t].buy # None => Usable(all_orders[t].buy)
          /\ all_orders[t].sell # None => Usable(all_orders[t].sell)
    /\ \A i \in 1..Len(changed_orders) :
          changed_orders[i] # None => Usable(changed_orders[i])

\* a text that is no decimal literal and does not start in compact notation
Unparseable(s) == float_of_str(s) = Raised /\ compact_match(s) = <<>>

\* a price field that is no number: an unparseable text, null, or missing
BadPrice(p) ==
    \/ p.k \in {"null", "missing"}
    \/ p.k = "str" /\ Unparseable(p.s)

\* a collateral field float() cannot read
BadCollateral(c) ==
    \/ c.k = "null"
    \/ c.k = "str" /\ float_of_str(c.s) = Raised

\* a malformed record of a fetched list
Malformed(r) == ~r.mapping \/ BadPrice(r.price) \/ BadCollateral(r.collateral)

WellFormed(r) == ~Malformed(r)

Subscripts == <<"s0", "s1", "s2", "s3", "s4", "s5", "s6", "s7", "s8", "s9">>

\* a text "0.0" + one subscript digit + one or more ordinary digits
IsCompact(s) ==
    /\ Len(s) >= 5
    /\ SubSeq(s, 1, 3) = <<"0", ".", "0">>
    /\ s[4] \in Range(Subscripts)
    /\ \A i \in 5..Len(s) : s[i] \in DigitChars

\* C14: for every subscript digit k and every non-empty run D of ordinary
\* digits, parse_special_price("0.0" + subscript(k) + D) is the value of the
\* decimal "0." + k zeros + D, that is the integer D spells times
\* 10^-(k + Len(D)).
C14_CompactNotation ==
    (Returned("parse_special_price") /\ args[1].k = "str" /\ IsCompact(args[1].s)) =>
        LET s == args[1].s
            k == (CHOOSE i \in 1..10 : Subscripts[i] = s[4]) - 1
            D == SubSeq(s, 5, Len(s))
        IN ret[1] = MkFloat(FALSE, DigitsValue(D), 0 - (k + Len(D)))

\* "0.0" + subscript 3 + "78" gives 0.00078
C14_Witness ==
    /\ Returned("parse_special_price")
    /\ args[1] = RawStr(<<"0", ".", "0", "s3", "7", "8">>)
    /\ ret[1] = [m |-> 78, e |-> 0 - 5]

\* the text "0.0" + subscript 0 + "5"
SubscriptZeroFive == RawStr(<<"0", ".", "0", "s0", "5">>)

\* C15 as stated: parse_special_price("0.0" + subscript 0 + "5") equals 0.05.
C15_SubscriptZero ==
    (Returned("parse_special_price") /\ args[1] = SubscriptZeroFive) =>
        ret[1] = MkFloat(FALSE, 5, 0 - 2)

\* C15 as amended: parse_special_price("0.0" + subscript 0 + "5") equals 0.5,
\* the decimal "0." + no zeros + "5".
C15_SubscriptZeroIsHalf ==
    (Returned("parse_special_price") /\ args[1] = SubscriptZeroFive) =>
        ret[1] = MkFloat(FALSE, 5, 0 - 1)

C15_Witness ==
    /\ Returned("parse_special_price")
    /\ args[1] = SubscriptZeroFive
    /\ ret[1] = [m |-> 5, e |-> 0 - 1]

\* x * y on floats, rounded half-to-even to Prec significant digits
Multiply(x, y) ==
    MkFloat((x.m < 0) # (y.m < 0), Abs(x.m) * Abs(y.m), x.e + y.e)

\* n * 10^e as a multiple of 10^lo
Scaled(n, e, lo) == n * Pow10(e - lo)

Min(a, b) == IF a < b THEN a ELSE b

\* a is c / p (p > 0) rounded to a float: a has the sign of c and a * p is
\* within half a unit in the last place of a, times p, of c
IsRoundedQuotient(a, c, p) ==
    IF c.m = 0 THEN a = Zero
    ELSE LET ulpExp == Magnitude(a) - Prec + p.e
             prodExp == a.e + p.e
             lo == Min(ulpExp, Min(prodExp, c.e))
         IN /\ Sign(a) = Sign(c)
            /\ 2 * Abs(Scaled(Abs(a.m) * p.m, prodExp, lo)
                         - Scaled(Abs(c.m), c.e, lo))
                  <= Scaled(p.m, ulpExp, lo)

\* C16 as stated: every order parse_order produces has amount = collateral /
\* price with amount * price == collateral when price > 0, and amount = 0
\* when price is not greater than 0.
C16_AmountTimesPrice ==
    (Returned("parse_order") /\ ret[1] # None) =>
        IF IsPositive(ret[1].price)
        THEN /\ IsRoundedQuotient(ret[1].amount, ret[1].collateral, ret[1].price)
             /\ Multiply(ret[1].amount, ret[1].price) = ret[1].collateral
        ELSE ret[1].amount = Zero

\* C16 as amended: every order parse_order produces has, when price > 0,
\* amount = collateral / price rounded to a float (so amount * price equals
\* collateral up to that rounding), and amount = 0 when price is not greater
\* than 0.
C16_AmountIsRoundedQuotient ==
    (Returned("parse_order") /\ ret[1] # None) =>
        IF IsPositive(ret[1].price)
        THEN IsRoundedQuotient(ret[1].amount, ret[1].collateral, ret[1].price)
        ELSE ret[1].amount = Zero

\* collateral 100 at price "0.0" + subscript 2 + "3" (0.003): the amount times
\* the price is not 100
C16_Witness ==
    /\ Returned("parse_order")
    /\ args[1].price = RawStr(<<"0", ".", "0", "s2", "3">>)
    /\ ret[1] # None
    /\ ret[1].price = [m |-> 3, e |-> 0 - 3]
    /\ ret[1].collateral = Num(100)
    /\ IsPositive(ret[1].amount)
    /\ Multiply(ret[1].amount, ret[1].price) # ret[1].collateral

====
